---- MODULE Spec2Model ----
(***************************************************************************)
(* Model of Neo4jQueryBuilder (query-builder.ts).  Strings are sequences   *)
(* of one-character strings, so that prefix tests, suffixing, sanitizing   *)
(* and joining are computed as the code computes them.                     *)
(***************************************************************************)
EXTENDS Integers, Sequences, FiniteSets, TLC

VARIABLES lastNodeVar, lastNodeVarIndex, nodes, params, query, return,
          lastGen, calls, built, refCall, heap,
          instance, drivers, pc, held, connCall,
          db, sessions, txRuns

\* the state of the Neo4j class (neo4j.ts) and of its callers
\* the state of a Neo4j object's query methods: the call in progress (or the
\* last one made), the sessions that exist, the runs made on the caller's
\* managed transaction
dbVars == <<db, sessions, txRuns>>

connVars == <<instance, drivers, pc, held, connCall, dbVars>>

\* the state of the query builder and of its callers
builderVars == <<lastNodeVar, lastNodeVarIndex, nodes, params, query, return,
                 lastGen, calls, built, refCall, heap>>

vars == <<lastNodeVar, lastNodeVarIndex, nodes, params, query, return,
          lastGen, calls, built, refCall, heap, connVars>>

\* ------------------------------------------------------------------ bounds
MaxOps == 3
MaxAuto == 702
MaxOther == 2
MaxRef == 2
MaxCalls == 4
MaxDb == 2
MaxNode == 3

\* --------------------------------------------------------- string helpers
\* an omitted argument (undefined); never equal to a string of characters
Undefined == <<"undefined">>

\* an omitted properties argument; never equal to a property mapping
UndefinedRecord == <<Undefined>>

\* the empty object {}
EmptyMap == [k \in {} |-> 0]

Lower == {"a","b","c","d","e","f","g","h","i","j","k","l","m",
          "n","o","p","q","r","s","t","u","v","w","x","y","z"}
Upper == {"A","B","C","D","E","F","G","H","I","J","K","L","M",
          "N","O","P","Q","R","S","T","U","V","W","X","Y","Z"}
Digits == <<"0","1","2","3","4","5","6","7","8","9">>

\* characters kept by /[^a-zA-Z0-9]/g
AlphaNum == Lower \cup Upper \cup {Digits[i] : i \in DOMAIN Digits}

nodeVarIndex == <<"a","b","c","d","e","f","g","h","i","j","k","l","m",
                  "n","o","p","q","r","s","t","u","v","w","x","y","z">>

\* `${n}` for a non-negative integer
RECURSIVE toDecimal(_)
toDecimal(n) ==
  IF n < 10 THEN <<Digits[n + 1]>>
  ELSE toDecimal(n \div 10) \o <<Digits[(n % 10) + 1]>>

\* Array.prototype.join
RECURSIVE arrayJoin(_, _)
arrayJoin(arr, sep) ==
  IF Len(arr) = 0 THEN <<>>
  ELSE IF Len(arr) = 1 THEN arr[1]
  ELSE arr[1] \o sep \o arrayJoin(Tail(arr), sep)

\* String.prototype.startsWith
startsWith(node, prefix) ==
  /\ Len(prefix) <= Len(node)
  /\ SubSeq(node, 1, Len(prefix)) = prefix

\* !value for an optional string: undefined and '' are both falsy
Falsy(s) == s = Undefined \/ s = <<>>

\* ---------------------------------------------------------- alias table
\* Array.from(this.nodes.keys()): keys in insertion order
nodeKeys(b) == [i \in DOMAIN b.nodes |-> b.nodes[i].nodeVar]

\* this.nodes.has(nodeVar)
has(b, nodeVar) == \E i \in DOMAIN b.nodes : b.nodes[i].nodeVar = nodeVar

\* this.nodes.set(nodeVar, {nodeVar, label}): an existing key keeps its
\* position and gets the new value, a new key is appended
set(b, nodeVar, label) ==
  LET entry == [nodeVar |-> nodeVar, label |-> label] IN
  [b EXCEPT !.nodes =
     IF has(b, nodeVar)
     THEN [i \in DOMAIN b.nodes |->
             IF b.nodes[i].nodeVar = nodeVar THEN entry ELSE b.nodes[i]]
     ELSE Append(b.nodes, entry)]

similarNodes(b, nodeVar) ==
  SelectSeq(nodeKeys(b), LAMBDA node : startsWith(node, nodeVar))

\* ------------------------------------------------------ generateNodeVar
\* this.lastNodeVar + nodeVarIndex[this.lastNodeVarIndex]
autoNodeVar(b) == b.lastNodeVar \o <<nodeVarIndex[b.lastNodeVarIndex + 1]>>

advance_fixedPrefix(b) ==
  LET inc == b.lastNodeVarIndex + 1 IN
  IF inc > Len(nodeVarIndex) - 1
  THEN [b EXCEPT !.lastNodeVarIndex = 0,
                 !.lastNodeVar = <<nodeVarIndex[0 + 1]>>]
  ELSE [b EXCEPT !.lastNodeVarIndex = inc]

advance_noPrefix(b) ==
  LET inc == b.lastNodeVarIndex + 1 IN
  IF inc > Len(nodeVarIndex) - 1
  THEN [b EXCEPT !.lastNodeVarIndex = 0]
  ELSE [b EXCEPT !.lastNodeVarIndex = inc]

\* this.lastNodeVarIndex++ and, past the end of the alphabet, reset the
\* index to 0 and append nodeVarIndex[0] to the prefix
advance(b) ==
  LET inc == b.lastNodeVarIndex + 1 IN
  IF inc > Len(nodeVarIndex) - 1
  THEN [b EXCEPT !.lastNodeVarIndex = 0,
                 !.lastNodeVar = @ \o <<nodeVarIndex[0 + 1]>>]
  ELSE [b EXCEPT !.lastNodeVarIndex = inc]

\* the suffix step: `${nodeVar}_${this.similarNodes(nodeVar).length}` when
\* the alias is already a key of this.nodes
suffixed_countAll(b, nodeVar) ==
  IF has(b, nodeVar)
  THEN nodeVar \o <<"_">> \o toDecimal(Len(b.nodes))
  ELSE nodeVar

suffixed(b, nodeVar) ==
  IF has(b, nodeVar)
  THEN nodeVar \o <<"_">> \o toDecimal(Len(similarNodes(b, nodeVar)))
  ELSE nodeVar

generateNodeVar(b, variable) ==
  IF Falsy(variable)
  THEN [b |-> advance(b), nodeVar |-> suffixed(b, autoNodeVar(b))]
  ELSE [b |-> b, nodeVar |-> suffixed(b, variable)]

getNodeVarOrGenerate_registering(b, nodeVar) ==
  IF nodeVar = Undefined
  THEN [b |-> set(generateNodeVar(b, Undefined).b,
                  generateNodeVar(b, Undefined).nodeVar, <<>>),
        nodeVar |-> generateNodeVar(b, Undefined).nodeVar]
  ELSE [b |-> b, nodeVar |-> nodeVar]

getNodeVarOrGenerate(b, nodeVar) ==
  IF nodeVar = Undefined THEN generateNodeVar(b, Undefined)
  ELSE [b |-> b, nodeVar |-> nodeVar]

\* --------------------------------------------- generatePropertySelectors
\* key.toString().replace(/[^a-zA-Z0-9]/g, '_')
sanitizedKey(key) ==
  [i \in DOMAIN key |-> IF key[i] \in AlphaNum THEN key[i] ELSE "_"]

\* `${nodeVar}_${sanitizedKey}`
paramKey(nodeVar, key) == nodeVar \o <<"_">> \o sanitizedKey(key)

generatePropertySelectors_noEmptyCheck(nodeVar, record) ==
  LET pk(i) == paramKey(nodeVar, record[i][1])
      last(k) == CHOOSE i \in DOMAIN record :
                   /\ pk(i) = k
                   /\ \A j \in DOMAIN record : pk(j) = k => j <= i
      parameterizedStrArr ==
        [i \in DOMAIN record |-> record[i][1] \o <<":", " ", "$">> \o pk(i)]
  IN [parameterizedString |->
        <<" ", "{">> \o arrayJoin(parameterizedStrArr, <<",", " ">>) \o <<"}">>,
      parameters |->
        [k \in {pk(i) : i \in DOMAIN record} |-> record[last(k)][2]]]

\* A property mapping is the sequence of its <<key, value>> entries in
\* iteration order (keys pairwise distinct).  The result's parameters are
\* an object: one entry per distinct parameter key, the last write wins.
generatePropertySelectors(nodeVar, record) ==
  IF Len(record) = 0
  THEN [parameterizedString |-> <<>>, parameters |-> EmptyMap]
  ELSE
    LET pk(i) == paramKey(nodeVar, record[i][1])
        last(k) == CHOOSE i \in DOMAIN record :
                     /\ pk(i) = k
                     /\ \A j \in DOMAIN record : pk(j) = k => j <= i
        parameterizedStrArr ==
          [i \in DOMAIN record |-> record[i][1] \o <<":", " ", "$">> \o pk(i)]
    IN [parameterizedString |->
          <<" ", "{">> \o arrayJoin(parameterizedStrArr, <<",", " ">>) \o <<"}">>,
        parameters |->
          [k \in {pk(i) : i \in DOMAIN record} |-> record[last(k)][2]]]

merge_replace(old, new) == new

merge_keepOld(old, new) ==
  [k \in DOMAIN old \cup DOMAIN new |->
     IF k \in DOMAIN old THEN old[k] ELSE new[k]]

\* { ...this.params, ...parameters }
merge(old, new) ==
  [k \in DOMAIN old \cup DOMAIN new |->
     IF k \in DOMAIN new THEN new[k] ELSE old[k]]

\* ---------------------------------------------------- buildNodeReference
\* The objects that have been the value of this.params are kept in
\* b.objects, in order of creation; this.params refers to the last of them,
\* and b.params is its content.
buildNodeReference_inPlace(b, nodeVar, label, properties) ==
  LET lbl   == IF label = Undefined THEN <<>> ELSE label
      props == IF properties = UndefinedRecord THEN <<>> ELSE properties
      sel   == generatePropertySelectors(nodeVar, props)
  IN [b   |-> [b EXCEPT !.params = merge(b.params, sel.parameters),
                        !.objects = [@ EXCEPT ![Len(@)] =
                                       merge(b.params, sel.parameters)]],
      ref |-> nodeVar \o (IF lbl # <<>> THEN <<":">> \o lbl ELSE <<>>)
                      \o sel.parameterizedString]

buildNodeReference_noMerge(b, nodeVar, label, properties) ==
  LET lbl   == IF label = Undefined THEN <<>> ELSE label
      props == IF properties = UndefinedRecord THEN <<>> ELSE properties
      sel   == generatePropertySelectors(nodeVar, props)
  IN [b   |-> b,
      ref |-> nodeVar \o (IF lbl # <<>> THEN <<":">> \o lbl ELSE <<>>)
                      \o sel.parameterizedString]

buildNodeReference(b, nodeVar, label, properties) ==
  LET lbl   == IF label = Undefined THEN <<>> ELSE label
      props == IF properties = UndefinedRecord THEN <<>> ELSE properties
      sel   == generatePropertySelectors(nodeVar, props)
  IN [b   |-> [b EXCEPT !.params = merge(b.params, sel.parameters),
                        !.objects = Append(@, merge(b.params, sel.parameters))],
      ref |-> nodeVar \o (IF lbl # <<>> THEN <<":">> \o lbl ELSE <<>>)
                      \o sel.parameterizedString]

\* -------------------------------------------- buildRelationshipReference
\* the switch on direction; an omitted direction takes the default 'none'
arrowDirection_swapped(direction, relationshipPattern) ==
  LET d == IF direction = "undefined" THEN "none" ELSE direction IN
  CASE d = "to"   -> <<"-">> \o relationshipPattern \o <<"-", ">">>
    [] d = "from" -> <<"<", "-">> \o relationshipPattern \o <<"-">>
    [] d \in {"both", "none"} -> <<"-">> \o relationshipPattern \o <<"-">>
    [] OTHER -> <<>>

arrowDirection(direction, relationshipPattern) ==
  LET d == IF direction = "undefined" THEN "none" ELSE direction IN
  CASE d = "from" -> <<"-">> \o relationshipPattern \o <<"-", ">">>
    [] d = "to"   -> <<"<", "-">> \o relationshipPattern \o <<"-">>
    [] d \in {"both", "none"} -> <<"-">> \o relationshipPattern \o <<"-">>
    [] OTHER -> <<>>

\* {} as a selector or attribute bag: every field reads as undefined
\* (an omitted attributes argument takes the default {})
NoAttributes == [variable |-> Undefined, label |-> Undefined,
                 properties |-> UndefinedRecord]

buildRelationshipReference_relationshipFirst(b, source, target, direction, attributes) ==
  LET attrs == attributes
      rv  == generateNodeVar(b, attrs.variable)
      sv  == getNodeVarOrGenerate(rv.b, source.variable)
      sr  == buildNodeReference(sv.b, sv.nodeVar, source.label, source.properties)
      tv  == getNodeVarOrGenerate(sr.b, target.variable)
      tr  == buildNodeReference(tv.b, tv.nodeVar, target.label, target.properties)
      use == ~Falsy(attrs.label) \/ ~Falsy(attrs.variable)
      rr  == buildNodeReference(tr.b, rv.nodeVar, attrs.label, attrs.properties)
      relationshipPattern == IF use THEN <<"[">> \o rr.ref \o <<"]">> ELSE <<>>
      b3  == IF use THEN rr.b ELSE tr.b
      b4  == IF relationshipPattern # <<>>
             THEN set(b3, rv.nodeVar,
                      IF attrs.label = Undefined THEN <<>> ELSE attrs.label)
             ELSE b3
  IN [b   |-> b4,
      ref |-> <<"(">> \o sr.ref \o <<")">>
              \o arrowDirection(direction, relationshipPattern)
              \o <<"(">> \o tr.ref \o <<")">>,
      gen |-> (IF source.variable = Undefined THEN <<sv.nodeVar>> ELSE <<>>)
              \o (IF target.variable = Undefined THEN <<tv.nodeVar>> ELSE <<>>)
              \o <<rv.nodeVar>>,
      relationshipVar |-> rv.nodeVar]

buildRelationshipReference_lazy(b, source, target, direction, attributes) ==
  LET attrs == attributes
      sv  == getNodeVarOrGenerate(b, source.variable)
      sr  == buildNodeReference(sv.b, sv.nodeVar, source.label, source.properties)
      tv  == getNodeVarOrGenerate(sr.b, target.variable)
      tr  == buildNodeReference(tv.b, tv.nodeVar, target.label, target.properties)
      use == ~Falsy(attrs.label) \/ ~Falsy(attrs.variable)
      rv  == IF use THEN generateNodeVar(tr.b, attrs.variable)
             ELSE [b |-> tr.b, nodeVar |-> Undefined]
      rr  == buildNodeReference(rv.b, rv.nodeVar, attrs.label, attrs.properties)
      relationshipPattern == IF use THEN <<"[">> \o rr.ref \o <<"]">> ELSE <<>>
      b3  == IF use THEN rr.b ELSE rv.b
      b4  == IF relationshipPattern # <<>>
             THEN set(b3, rv.nodeVar,
                      IF attrs.label = Undefined THEN <<>> ELSE attrs.label)
             ELSE b3
  IN [b   |-> b4,
      ref |-> <<"(">> \o sr.ref \o <<")">>
              \o arrowDirection(direction, relationshipPattern)
              \o <<"(">> \o tr.ref \o <<")">>,
      gen |-> (IF source.variable = Undefined THEN <<sv.nodeVar>> ELSE <<>>)
              \o (IF target.variable = Undefined THEN <<tv.nodeVar>> ELSE <<>>)
              \o <<rv.nodeVar>>,
      relationshipVar |-> rv.nodeVar]

buildRelationshipReference_labelOnly(b, source, target, direction, attributes) ==
  LET attrs == attributes
      sv  == getNodeVarOrGenerate(b, source.variable)
      sr  == buildNodeReference(sv.b, sv.nodeVar, source.label, source.properties)
      tv  == getNodeVarOrGenerate(sr.b, target.variable)
      tr  == buildNodeReference(tv.b, tv.nodeVar, target.label, target.properties)
      rv  == generateNodeVar(tr.b, attrs.variable)
      use == ~Falsy(attrs.label)
      rr  == buildNodeReference(rv.b, rv.nodeVar, attrs.label, attrs.properties)
      relationshipPattern == IF use THEN <<"[">> \o rr.ref \o <<"]">> ELSE <<>>
      b3  == IF use THEN rr.b ELSE rv.b
      b4  == IF relationshipPattern # <<>>
             THEN set(b3, rv.nodeVar,
                      IF attrs.label = Undefined THEN <<>> ELSE attrs.label)
             ELSE b3
  IN [b   |-> b4,
      ref |-> <<"(">> \o sr.ref \o <<")">>
              \o arrowDirection(direction, relationshipPattern)
              \o <<"(">> \o tr.ref \o <<")">>,
      gen |-> (IF source.variable = Undefined THEN <<sv.nodeVar>> ELSE <<>>)
              \o (IF target.variable = Undefined THEN <<tv.nodeVar>> ELSE <<>>)
              \o <<rv.nodeVar>>,
      relationshipVar |-> rv.nodeVar]

buildRelationshipReference(b, source, target, direction, attributes) ==
  LET attrs == attributes
      sv  == getNodeVarOrGenerate(b, source.variable)
      sr  == buildNodeReference(sv.b, sv.nodeVar, source.label, source.properties)
      tv  == getNodeVarOrGenerate(sr.b, target.variable)
      tr  == buildNodeReference(tv.b, tv.nodeVar, target.label, target.properties)
      rv  == generateNodeVar(tr.b, attrs.variable)
      use == ~Falsy(attrs.label) \/ ~Falsy(attrs.variable)
      rr  == buildNodeReference(rv.b, rv.nodeVar, attrs.label, attrs.properties)
      relationshipPattern == IF use THEN <<"[">> \o rr.ref \o <<"]">> ELSE <<>>
      b3  == IF use THEN rr.b ELSE rv.b
      b4  == IF relationshipPattern # <<>>
             THEN set(b3, rv.nodeVar,
                      IF attrs.label = Undefined THEN <<>> ELSE attrs.label)
             ELSE b3
  IN [b   |-> b4,
      ref |-> <<"(">> \o sr.ref \o <<")">>
              \o arrowDirection(direction, relationshipPattern)
              \o <<"(">> \o tr.ref \o <<")">>,
      gen |-> (IF source.variable = Undefined THEN <<sv.nodeVar>> ELSE <<>>)
              \o (IF target.variable = Undefined THEN <<tv.nodeVar>> ELSE <<>>)
              \o <<rv.nodeVar>>,
      relationshipVar |-> rv.nodeVar]

\* the value held for "no build() result yet"
NoResult == [query |-> Undefined, params |-> EmptyMap]

\* ------------------------------------------------------ public methods
MATCH == <<"M", "A", "T", "C", "H", " ">>
MERGE == <<"M", "E", "R", "G", "E", " ">>
RETURN == <<"R", "E", "T", "U", "R", "N", " ">>

select_prepend(b, label, nodeVar, filter) ==
  LET g  == generateNodeVar(b, nodeVar)
      b1 == set(g.b, g.nodeVar, label)
      r  == buildNodeReference(b1, g.nodeVar, label, filter)
  IN [b |-> [r.b EXCEPT !.query = <<MATCH \o <<"(">> \o r.ref \o <<")">>>> \o @],
      nodeVar |-> g.nodeVar]

select(b, label, nodeVar, filter) ==
  LET g  == generateNodeVar(b, nodeVar)
      b1 == set(g.b, g.nodeVar, label)
      r  == buildNodeReference(b1, g.nodeVar, label, filter)
  IN [b |-> [r.b EXCEPT !.query = Append(@, MATCH \o <<"(">> \o r.ref \o <<")">>)],
      nodeVar |-> g.nodeVar]

createNode(b, label, properties, variable) ==
  LET g  == generateNodeVar(b, variable)
      b1 == set(g.b, g.nodeVar, label)
      r  == buildNodeReference(b1, g.nodeVar, label, properties)
  IN [b |-> [r.b EXCEPT !.query = Append(@, MERGE \o <<"(">> \o r.ref \o <<")">>)],
      nodeVar |-> g.nodeVar]

customReturn_accumulating(b, aliases) ==
  [b EXCEPT !.return = IF @ = <<>> THEN RETURN \o arrayJoin(aliases, <<",">>)
                       ELSE @ \o <<",">> \o arrayJoin(aliases, <<",">>)]

customReturn(b, aliases) ==
  [b EXCEPT !.return = RETURN \o arrayJoin(aliases, <<",">>)]

join_suffixing(b, sourceNode, targetNode, direction, attributes) ==
  LET r == buildRelationshipReference(
             b,
             [variable |-> suffixed(b, sourceNode), label |-> Undefined,
              properties |-> UndefinedRecord],
             [variable |-> suffixed(b, targetNode), label |-> Undefined,
              properties |-> UndefinedRecord],
             direction, attributes)
  IN [b |-> [r.b EXCEPT !.query = Append(@, MATCH \o r.ref)],
      gen |-> r.gen, relationshipVar |-> r.relationshipVar]

join(b, sourceNode, targetNode, direction, attributes) ==
  LET r == buildRelationshipReference(
             b,
             [variable |-> sourceNode, label |-> Undefined,
              properties |-> UndefinedRecord],
             [variable |-> targetNode, label |-> Undefined,
              properties |-> UndefinedRecord],
             direction, attributes)
  IN [b |-> [r.b EXCEPT !.query = Append(@, MATCH \o r.ref)],
      gen |-> r.gen, relationshipVar |-> r.relationshipVar]

build_commaOnly(b) ==
  [query  |-> arrayJoin(Append(b.query,
                          IF b.return # <<>> THEN b.return
                          ELSE RETURN \o arrayJoin(nodeKeys(b), <<",">>)),
                   <<" ">>),
   params |-> b.params]

build_returnFirst(b) ==
  [query  |-> arrayJoin(<<IF b.return # <<>> THEN b.return
                          ELSE RETURN \o arrayJoin(nodeKeys(b), <<",", " ">>)>>
                        \o b.query,
                        <<" ">>),
   params |-> b.params]

build_cached(b) ==
  IF built # NoResult THEN built
  ELSE [query  |-> arrayJoin(Append(b.query,
                          IF b.return # <<>> THEN b.return
                          ELSE RETURN \o arrayJoin(nodeKeys(b), <<",", " ">>)),
                   <<" ">>),
        params |-> b.params]

build(b) ==
  [query  |-> arrayJoin(Append(b.query,
                          IF b.return # <<>> THEN b.return
                          ELSE RETURN \o arrayJoin(nodeKeys(b), <<",", " ">>)),
                   <<" ">>),
   params |-> b.params]

\* ------------------------------------------------------------- inputs
X == <<"x">>
X2 == <<"x", "_", "2">>
XY == <<"x", "y">>
Rv == <<"r">>
Car == <<"C", "a", "r">>
REL == <<"R", "E", "L">>
K == <<"k">>
K2d == <<"2", "-", "k">>
K2u == <<"2", "_", "k">>
Props1 == << <<K, 1>> >>
Props2 == << <<K2d, 1>>, <<K2u, 2>> >>

SelectAliases == {Undefined, X, X2, XY}
SelectFilters == {UndefinedRecord, Props1, Props2}
CreateAliases == {Undefined, X}
CreateProps == {<<>>, Props1}
JoinInputs ==
  { [direction |-> "undefined", attributes |-> NoAttributes],
    [direction |-> "from",
     attributes |-> [variable |-> X, label |-> REL,
                     properties |-> UndefinedRecord]],
    [direction |-> "to",
     attributes |-> [variable |-> Undefined, label |-> REL,
                     properties |-> Props1]],
    [direction |-> "both",
     attributes |-> [variable |-> X2, label |-> Undefined,
                     properties |-> UndefinedRecord]],
    [direction |-> "none",
     attributes |-> [variable |-> Rv, label |-> REL,
                     properties |-> <<>>]] }
ReturnLists == {<<>>, <<X>>, <<X, XY>>}

\* ---------------------------------------------------------- the builder
\* the builder object, read from the state
B == [lastNodeVar |-> lastNodeVar, lastNodeVarIndex |-> lastNodeVarIndex,
      nodes |-> nodes, params |-> params, query |-> query, return |-> return,
      objects |-> heap.objects]

\* the builder object, written back to the state
Store(b) ==
  /\ lastNodeVar' = b.lastNodeVar
  /\ lastNodeVarIndex' = b.lastNodeVarIndex
  /\ nodes' = b.nodes
  /\ params' = b.params
  /\ query' = b.query
  /\ return' = b.return
  /\ heap' = [heap EXCEPT !.objects = b.objects]

\* what the caller passed to, and got from, the last call
Call(op, variable, properties, nodeVar) ==
  [op |-> op, variable |-> variable, properties |-> properties,
   nodeVar |-> nodeVar, aliases |-> <<>>]

\* the number of calls made on the builder so far, and the last of them
opCount == Len(calls)
LastCall == IF calls = <<>>
            THEN Call("new", Undefined, UndefinedRecord, Undefined)
            ELSE calls[Len(calls)]

\* no buildRelationshipReference call made yet
NoRefCall == [source |-> NoAttributes, target |-> NoAttributes,
              direction |-> "undefined", attributes |-> NoAttributes,
              text |-> Undefined, relationshipVar |-> Undefined]

\* no query method of a Neo4j object called yet
Pending == [status |-> "pending", records |-> 0]
NoDbCall == [n |-> 0, at |-> "idle", method |-> "none",
             label |-> Undefined, where |-> UndefinedRecord, query |-> <<>>,
             params |-> EmptyMap, options |-> "none", session |-> 0,
             driver |-> 0, run |-> Pending, returned |-> "pending",
             records |-> 0, logged |-> FALSE]

\* the static Neo4j.instance is null, no driver was created, no call is
\* in flight
Procs == {1, 2, 3}
InitConn ==
  /\ instance = 0
  /\ drivers = <<>>
  /\ pc = [p \in Procs |-> "idle"]
  /\ held = [p \in Procs |-> 0]
  /\ connCall = [n |-> 0, op |-> "none", proc |-> 0, result |-> 0]
  /\ db = NoDbCall
  /\ sessions = <<>>
  /\ txRuns = 0

Init ==
  /\ refCall = NoRefCall
  /\ heap = [objects |-> <<EmptyMap>>, built |-> 0]
  /\ InitConn
  /\ lastNodeVar = <<>>
  /\ lastNodeVarIndex = 0
  /\ nodes = <<>>
  /\ params = EmptyMap
  /\ query = <<>>
  /\ return = <<>>
  /\ lastGen = <<>>
  /\ calls = <<>>
  /\ built = NoResult

DoSelect(label, nodeVar, filter) ==
  \E r \in {select(B, label, nodeVar, filter)} :
  /\ Store(r.b)
  /\ lastGen' = <<r.nodeVar>>
  /\ calls' = Append(calls, Call("select", nodeVar, filter, r.nodeVar))
  /\ UNCHANGED <<built, refCall, connVars>>

DoCreateNode(label, properties, variable) ==
  \E r \in {createNode(B, label, properties, variable)} :
  /\ Store(r.b)
  /\ lastGen' = <<r.nodeVar>>
  /\ calls' = Append(calls, Call("createNode", variable, properties, r.nodeVar))
  /\ UNCHANGED <<built, refCall, connVars>>

DoJoin(sourceNode, targetNode, direction, attributes) ==
  \E r \in {join(B, sourceNode, targetNode, direction, attributes)} :
  /\ Store(r.b)
  /\ lastGen' = r.gen
  /\ calls' = Append(calls, Call("join", attributes.variable, attributes.properties,
                             r.relationshipVar))
  /\ UNCHANGED <<built, refCall, connVars>>

Select ==
  /\ opCount < MaxOps
  /\ \E nodeVar \in SelectAliases, filter \in SelectFilters :
        DoSelect(Car, nodeVar, filter)

CreateNode ==
  /\ opCount < MaxOps
  /\ \E variable \in CreateAliases, properties \in CreateProps :
        DoCreateNode(Car, properties, variable)

Join ==
  /\ opCount < MaxOps
  /\ \E in \in JoinInputs : DoJoin(X, XY, in.direction, in.attributes)

CustomReturn ==
  /\ opCount < MaxOps
  /\ \E aliases \in ReturnLists :
       /\ Store(customReturn(B, aliases))
       /\ calls' = Append(calls, [Call("customReturn", Undefined,
                                       UndefinedRecord, Undefined)
                                    EXCEPT !.aliases = aliases])
  /\ lastGen' = <<>>
  /\ UNCHANGED <<built, refCall, connVars>>

Build_consuming ==
  /\ opCount < MaxOps
  /\ built' = build(B)
  /\ lastGen' = <<>>
  /\ calls' = Append(calls, Call("build", Undefined, UndefinedRecord, Undefined))
  /\ query' = <<>>
  /\ UNCHANGED <<lastNodeVar, lastNodeVarIndex, nodes, params, return>>
  /\ heap' = [heap EXCEPT !.built = Len(heap.objects)]
  /\ UNCHANGED <<refCall, connVars>>

Build ==
  /\ opCount < MaxOps
  /\ built' = build(B)
  /\ lastGen' = <<>>
  /\ calls' = Append(calls, Call("build", Undefined, UndefinedRecord, Undefined))
  /\ UNCHANGED <<lastNodeVar, lastNodeVarIndex, nodes, params, query, return>>
  /\ heap' = [heap EXCEPT !.built = Len(heap.objects)]
  /\ UNCHANGED <<refCall, connVars>>

Next == Select \/ CreateNode \/ Join \/ CustomReturn \/ Build

Spec == Init /\ [][Next]_vars

\* A builder on which no alias is ever supplied: every call auto-generates.
\* The first MaxOther calls are of any kind; from then on the caller repeats
\* the kind of its last call (select and createNode register what they
\* generate, a bare join does not).
AutoSelect ==
  /\ opCount < MaxAuto
  /\ opCount < MaxOther \/ LastCall.op = "select"
  /\ DoSelect(Car, Undefined, UndefinedRecord)

AutoCreateNode ==
  /\ opCount < MaxAuto
  /\ opCount < MaxOther \/ LastCall.op = "createNode"
  /\ DoCreateNode(Car, <<>>, Undefined)

AutoJoin ==
  /\ opCount < MaxAuto
  /\ opCount < MaxOther \/ LastCall.op = "join"
  /\ DoJoin(X, XY, "undefined", NoAttributes)

NextAuto == AutoSelect \/ AutoCreateNode \/ AutoJoin

SpecAuto == Init /\ [][NextAuto]_vars

\* ------------------------------------ buildRelationshipReference, called
\* directly on a builder that may already hold aliases
RefSources ==
  { [variable |-> X, label |-> Undefined, properties |-> UndefinedRecord],
    [variable |-> Undefined, label |-> Car, properties |-> Props1] }
RefTargets ==
  { [variable |-> XY, label |-> Undefined, properties |-> UndefinedRecord] }
\* the pairs of source and target, with the pair of two empty objects
RefEnds == (RefSources \X RefTargets) \cup {<<NoAttributes, NoAttributes>>}
Directions == {"from", "to", "both", "none", "undefined"}
RefAttributes ==
  { NoAttributes,
    [variable |-> Undefined, label |-> Undefined, properties |-> Props1],
    [variable |-> <<>>, label |-> <<>>, properties |-> UndefinedRecord],
    [variable |-> X, label |-> Undefined, properties |-> UndefinedRecord],
    [variable |-> Undefined, label |-> REL, properties |-> UndefinedRecord],
    [variable |-> Rv, label |-> REL, properties |-> Props1] }

BuildRelationshipReference ==
  /\ opCount < MaxRef
  /\ \E ends \in RefEnds, direction \in Directions,
        attributes \in RefAttributes :
       \E source \in {ends[1]}, target \in {ends[2]},
          r \in {buildRelationshipReference(B, ends[1], ends[2], direction,
                                            attributes)} :
         /\ Store(r.b)
         /\ lastGen' = r.gen
         /\ calls' = Append(calls, Call("buildRelationshipReference",
                                        attributes.variable,
                                        attributes.properties,
                                        r.relationshipVar))
         /\ refCall' = [source |-> source, target |-> target,
                        direction |-> direction, attributes |-> attributes,
                        text |-> r.ref, relationshipVar |-> r.relationshipVar]
  /\ UNCHANGED <<built, connVars>>

RefSelect ==
  /\ opCount < MaxRef
  /\ \E nodeVar \in {Undefined, X, <<"a">>} :
       DoSelect(Car, nodeVar, UndefinedRecord)

RefJoin ==
  /\ opCount < MaxRef
  /\ DoJoin(X, XY, "undefined", NoAttributes)

NextRef == RefSelect \/ BuildRelationshipReference \/ RefJoin

SpecRef == Init /\ [][NextRef]_vars

\* ------------------------------------------------- the Neo4j connection
\* The static instance is 0 for null, else the index of a driver in
\* drivers, the sequence of all drivers created so far ("open" until
\* close() is called on them).
N == [instance |-> instance, drivers |-> drivers]

connect_always(c) ==
  [instance |-> Len(c.drivers) + 1,
   drivers |-> Append(c.drivers, "open"),
   result |-> Len(c.drivers) + 1]

\* static async connect: no await inside, the body runs in one piece
connect(c) ==
  IF c.instance # 0
  THEN [instance |-> c.instance, drivers |-> c.drivers, result |-> c.instance]
  ELSE [instance |-> Len(c.drivers) + 1,
        drivers |-> Append(c.drivers, "open"),
        result |-> Len(c.drivers) + 1]

\* static async getInstance
getInstance(c) ==
  IF c.instance = 0
  THEN connect(c)
  ELSE [instance |-> c.instance, drivers |-> c.drivers, result |-> c.instance]

StoreConn(r) ==
  /\ instance' = r.instance
  /\ drivers' = r.drivers

ConnCall(op, p, result) ==
  [n |-> connCall.n + 1, op |-> op, proc |-> p, result |-> result]

Connect(p) ==
  /\ pc[p] = "idle"
  /\ connCall.n < MaxCalls
  /\ \E r \in {connect(N)} :
       /\ StoreConn(r)
       /\ held' = [held EXCEPT ![p] = r.result]
       /\ connCall' = ConnCall("connect", p, r.result)
  /\ UNCHANGED <<pc, builderVars, dbVars>>

GetInstance(p) ==
  /\ pc[p] = "idle"
  /\ connCall.n < MaxCalls
  /\ \E r \in {getInstance(N)} :
       /\ StoreConn(r)
       /\ held' = [held EXCEPT ![p] = r.result]
       /\ connCall' = ConnCall("getInstance", p, r.result)
  /\ UNCHANGED <<pc, builderVars, dbVars>>

\* disconnect, up to its first await: const driver = await getInstance()
DisconnectStart(p) ==
  /\ pc[p] = "idle"
  /\ connCall.n < MaxCalls
  /\ \E r \in {getInstance(N)} :
       /\ StoreConn(r)
       /\ held' = [held EXCEPT ![p] = r.result]
  /\ connCall' = ConnCall("disconnect", p, 0)
  /\ pc' = [pc EXCEPT ![p] = "awaitInstance"]
  /\ UNCHANGED <<builderVars, dbVars>>

\* disconnect, resumed: if (driver) { await driver.close() ...
DisconnectClose(p) ==
  /\ pc[p] = "awaitInstance"
  /\ IF held[p] # 0
     THEN /\ drivers' = [drivers EXCEPT ![held[p]] = "closed"]
          /\ pc' = [pc EXCEPT ![p] = "awaitClose"]
     ELSE /\ pc' = [pc EXCEPT ![p] = "idle"]
          /\ UNCHANGED drivers
  /\ UNCHANGED <<instance, held, connCall, builderVars, dbVars>>

DisconnectClear_keep(p) ==
  /\ pc[p] = "awaitClose"
  /\ pc' = [pc EXCEPT ![p] = "idle"]
  /\ UNCHANGED <<instance, drivers, held, connCall, builderVars, dbVars>>

\* disconnect, resumed after close(): Neo4j.instance = null
DisconnectClear(p) ==
  /\ pc[p] = "awaitClose"
  /\ instance' = 0
  /\ pc' = [pc EXCEPT ![p] = "idle"]
  /\ UNCHANGED <<drivers, held, connCall, builderVars, dbVars>>

NextConn ==
  \E p \in Procs :
    \/ Connect(p)
    \/ GetInstance(p)
    \/ DisconnectStart(p)
    \/ DisconnectClose(p)
    \/ DisconnectClear(p)

SpecConn == Init /\ [][NextConn]_vars

\* ------------------------------------------- the Neo4j query methods
\* A statement written as a template literal is the sequence of its pieces;
\* a statement made by the query builder is the builder's string.
Id == <<"i", "d">>
Source == <<"s", "o", "u", "r", "c", "e">>
Target == <<"t", "a", "r", "g", "e", "t">>
RelationshipLabel == <<"r", "e", "l", "a", "t", "i", "o", "n", "s", "h", "i",
                       "p", "L", "a", "b", "e", "l">>
Nn == <<"n">>

\* new Neo4jQueryBuilder()
Fresh == [lastNodeVar |-> <<>>, lastNodeVarIndex |-> 0, nodes |-> <<>>,
          params |-> EmptyMap, query |-> <<>>, return |-> <<>>,
          objects |-> <<EmptyMap>>]

\* the statement and parameters delete hands to execute
deleteStatement(nodeLabel, id) ==
  [query |-> <<"MATCH (n:", nodeLabel, ") WHERE n.id = $id DETACH DELETE n">>,
   params |-> [k \in {Id} |-> id]]

\* the switch of join: 'none' keeps the initial undirected pattern
directionStr(relationshipLabel, direction) ==
  CASE direction = "from" -> <<"-[r:", relationshipLabel, "]->">>
    [] direction = "to" -> <<"<-[r:", relationshipLabel, "]-">>
    [] direction = "both" -> <<"-[r:", relationshipLabel, "]-">>
    [] OTHER -> <<"-[r:", relationshipLabel, "]-">>

\* the statement and parameters join hands to execute
joinStatement(relationshipLabel, source, target, direction) ==
  [query |-> <<"MATCH (n) WHERE n.id = $source", " ",
               "WITH n as source", " ",
               "MATCH (m) where m.id = $target", " ",
               "WITH m as target, source", " ",
               "MERGE (source)">>
             \o directionStr(relationshipLabel, direction)
             \o <<"(target)", " ", "RETURN r">>,
   params |-> [k \in {Source, Target, RelationshipLabel} |->
                 IF k = Source THEN source
                 ELSE IF k = Target THEN target
                 ELSE relationshipLabel]]

selectStatement_auto(table, where) ==
  build(select(Fresh, table, Undefined, where).b)

\* the statement and parameters select hands to execute:
\* new Neo4jQueryBuilder().select(table, 'n', query?.where).build()
selectStatement(table, where) ==
  build(select(Fresh, table, Nn, where).b)

Rejected == [status |-> "rejected", records |-> 0]
Resolved(n) == [status |-> "resolved", records |-> n]
Outcomes == {Rejected, Resolved(0), Resolved(1), Resolved(2)}
OptionKinds == {"none", "session", "transaction"}

settled_propagating(method, outcome) ==
  IF outcome.status = "rejected"
  THEN [returned |-> "rejected", records |-> 0, logged |-> FALSE]
  ELSE IF method \in {"delete", "join"}
  THEN [returned |-> IF outcome.records > 0 THEN "true" ELSE "false",
        records |-> outcome.records, logged |-> FALSE]
  ELSE [returned |-> "result", records |-> outcome.records, logged |-> FALSE]

\* what the method makes of the outcome of its execute call: delete and
\* join catch a rejection, log it and return false, and otherwise return
\* records.length > 0; select and a direct execute pass the outcome on
settled(method, outcome) ==
  IF method \in {"delete", "join"}
  THEN IF outcome.status = "rejected"
       THEN [returned |-> "false", records |-> 0, logged |-> TRUE]
       ELSE [returned |-> IF outcome.records > 0 THEN "true" ELSE "false",
             records |-> outcome.records, logged |-> FALSE]
  ELSE IF outcome.status = "rejected"
       THEN [returned |-> "rejected", records |-> 0, logged |-> FALSE]
       ELSE [returned |-> "result", records |-> outcome.records,
             logged |-> FALSE]

\* the call returns to its caller
Settle(outcome) ==
  \E r \in {settled(db.method, outcome)} :
    db' = [db EXCEPT !.at = "idle", !.run = outcome, !.returned = r.returned,
                     !.records = r.records, !.logged = r.logged]

NewSession(origin) == [origin |-> origin, runs |-> 1, closes |-> 0]

\* a method called with a label and, for select, a filter, handing a
\* statement to execute: its body up to the first await inside execute.  With options.transaction the statement is run on it; with
\* options.session it is run on that session; otherwise getSession starts
\* with Neo4j.getInstance().
execute(method, label, where, statement, options) ==
  /\ db.at = "idle"
  /\ LET call == [NoDbCall EXCEPT !.n = db.n + 1, !.method = method,
                                  !.label = label, !.where = where,
                                  !.query = statement.query,
                                  !.params = statement.params,
                                  !.options = options]
     IN CASE options = "transaction" ->
               /\ txRuns' = txRuns + 1
               /\ db' = [call EXCEPT !.at = "awaitTransaction"]
               /\ UNCHANGED <<sessions, instance, drivers>>
          [] options = "session" ->
               /\ sessions' = Append(sessions, NewSession("given"))
               /\ db' = [call EXCEPT !.at = "awaitRun",
                                     !.session = Len(sessions) + 1]
               /\ UNCHANGED <<txRuns, instance, drivers>>
          [] OTHER ->
               \E r \in {getInstance(N)} :
                 /\ StoreConn(r)
                 /\ db' = [call EXCEPT !.at = "awaitSession",
                                       !.driver = r.result]
                 /\ UNCHANGED <<txRuns, sessions>>
  /\ UNCHANGED <<pc, held, connCall, builderVars>>

DbDelete ==
  /\ db.n < MaxDb
  /\ \E options \in OptionKinds :
       execute("delete", Car, UndefinedRecord, deleteStatement(Car, 1), options)

DbJoin ==
  /\ db.n < MaxDb
  /\ \E direction \in {"from", "to", "both", "none"}, options \in OptionKinds :
       execute("join", REL, UndefinedRecord,
               joinStatement(REL, 1, 2, direction), options)

DbSelect ==
  /\ db.n < MaxDb
  /\ \E where \in {UndefinedRecord, Props1, Props2}, options \in OptionKinds :
       execute("select", Car, where, selectStatement(Car, where), options)

DbExecute ==
  /\ db.n < MaxDb
  /\ \E options \in OptionKinds :
       execute("execute", Undefined, UndefinedRecord,
               [query |-> <<"RETURN 1">>, params |-> EmptyMap], options)

\* getSession resumed: no driver throws, else driver.session(), on which
\* execute runs the statement
getSession ==
  /\ db.at = "awaitSession"
  /\ IF db.driver = 0
     THEN /\ Settle(Rejected)
          /\ UNCHANGED sessions
     ELSE /\ sessions' = Append(sessions, NewSession("acquired"))
          /\ db' = [db EXCEPT !.at = "awaitRun", !.session = Len(sessions) + 1]
  /\ UNCHANGED <<txRuns, instance, drivers, pc, held, connCall, builderVars>>

\* session.run settles; the finally block calls session.close()
RunSettles_noFinally ==
  /\ db.at = "awaitRun"
  /\ \E outcome \in Outcomes :
       IF outcome.status = "rejected"
       THEN /\ Settle(outcome)
            /\ UNCHANGED sessions
       ELSE /\ db' = [db EXCEPT !.at = "awaitClose", !.run = outcome]
            /\ sessions' = [sessions EXCEPT ![db.session].closes = @ + 1]
  /\ UNCHANGED <<txRuns, instance, drivers, pc, held, connCall, builderVars>>

RunSettles ==
  /\ db.at = "awaitRun"
  /\ \E outcome \in Outcomes :
       db' = [db EXCEPT !.at = "awaitClose", !.run = outcome]
  /\ sessions' = [sessions EXCEPT ![db.session].closes = @ + 1]
  /\ UNCHANGED <<txRuns, instance, drivers, pc, held, connCall, builderVars>>

\* session.close() settles: a rejection replaces the outcome of the run
CloseSettles ==
  /\ db.at = "awaitClose"
  /\ \E ok \in BOOLEAN : Settle(IF ok THEN db.run ELSE Rejected)
  /\ UNCHANGED <<sessions, txRuns, instance, drivers, pc, held, connCall,
                 builderVars>>

\* transaction.run settles
TransactionSettles ==
  /\ db.at = "awaitTransaction"
  /\ \E outcome \in Outcomes : Settle(outcome)
  /\ UNCHANGED <<sessions, txRuns, instance, drivers, pc, held, connCall,
                 builderVars>>

NextDb ==
  \/ DbDelete
  \/ DbJoin
  \/ DbSelect
  \/ DbExecute
  \/ getSession
  \/ RunSettles
  \/ CloseSettles
  \/ TransactionSettles

SpecDb == Init /\ [][NextDb]_vars

\* ------------------------------------------ buildNodeReference, called
\* directly, among calls of the other methods
NodeProps ==
  { UndefinedRecord, << <<K2d, 1>> >>, << <<K2u, 2>> >>, Props1, Props2 }

BuildNodeReference ==
  /\ opCount < MaxNode
  /\ \E nodeVar \in {X, XY}, label \in {Undefined, Car},
        properties \in NodeProps :
       \E r \in {buildNodeReference(B, nodeVar, label, properties)} :
         /\ Store(r.b)
         /\ calls' = Append(calls, Call("buildNodeReference", nodeVar,
                                        properties, nodeVar))
         /\ refCall' = [NoRefCall EXCEPT
                          !.source = [variable |-> nodeVar, label |-> label,
                                      properties |-> properties],
                          !.text = r.ref]
  /\ lastGen' = <<>>
  /\ UNCHANGED <<built, connVars>>

NodeSelect ==
  /\ opCount < MaxNode
  /\ \E filter \in {UndefinedRecord, Props1, Props2} : DoSelect(Car, X, filter)

NodeBuild ==
  /\ opCount < MaxNode
  /\ built' = build(B)
  /\ lastGen' = <<>>
  /\ calls' = Append(calls, Call("build", Undefined, UndefinedRecord, Undefined))
  /\ UNCHANGED <<lastNodeVar, lastNodeVarIndex, nodes, params, query, return>>
  /\ heap' = [heap EXCEPT !.built = Len(heap.objects)]
  /\ UNCHANGED <<refCall, connVars>>

NodeCreateNode ==
  /\ opCount < MaxNode
  /\ \E properties \in {<<>>, Props1} : DoCreateNode(Car, properties, X)

NodeJoin ==
  /\ opCount < MaxNode
  /\ \E attributes \in {NoAttributes,
                         [variable |-> Rv, label |-> REL,
                          properties |-> Props1]} :
       DoJoin(X, XY, "from", attributes)

NodeCustomReturn ==
  /\ opCount < MaxNode
  /\ Store(customReturn(B, <<X>>))
  /\ calls' = Append(calls, [Call("customReturn", Undefined, UndefinedRecord,
                                  Undefined) EXCEPT !.aliases = <<X>>])
  /\ lastGen' = <<>>
  /\ UNCHANGED <<built, refCall, connVars>>

NextNode ==
  \/ BuildNodeReference
  \/ NodeSelect
  \/ NodeCreateNode
  \/ NodeJoin
  \/ NodeCustomReturn
  \/ NodeBuild

SpecNode == Init /\ [][NextNode]_vars

\* ------------------------------------------------------------ claims
\* calls that register an alias through select/createNode
Registering == {"select", "createNode"}

\* the property mapping a logged call handed to the serializer
PropsOf(c) == IF c.properties = UndefinedRecord THEN <<>> ELSE c.properties

\* X, X_1, X_2, ...: the i-th name of the family of X (i = 0 is X itself)
Nth(v, i) == IF i = 0 THEN v ELSE v \o <<"_">> \o toDecimal(i)

\* C1: the alias generateNodeVar returns is not a key of the alias table at
\* the moment it is returned (the table as it stood before the call's own
\* registration), so no registration overwrites an earlier one.
C1_ReturnedAliasNotRegistered ==
  [][\A i \in DOMAIN lastGen' :
       \A j \in DOMAIN nodes : nodes[j].nodeVar # lastGen'[i]]_vars

\* C2 (as claimed): the n-th select/createNode registration of the explicit
\* literal X yields X for n = 1 and X_(n-1) afterwards, whatever else the
\* builder holds.
C2_SameLiteralAnyTable ==
  \A i \in DOMAIN calls :
    (calls[i].op \in Registering /\ ~Falsy(calls[i].variable)) =>
      LET earlier == {j \in 1..(i - 1) :
                        /\ calls[j].op \in Registering
                        /\ calls[j].variable = calls[i].variable}
      IN calls[i].nodeVar = Nth(calls[i].variable, Cardinality(earlier))

\* C2 (amended): when the registered aliases that start with X are exactly
\* X, X_1, ..., X_(m-1) (none when m = 0), a select/createNode registration
\* of the explicit literal X yields X_m (X itself when m = 0).
C2_SameLiteralCleanFamily ==
  [][(calls' # calls /\ calls'[Len(calls')].op \in Registering
        /\ ~Falsy(calls'[Len(calls')].variable)) =>
       LET v == calls'[Len(calls')].variable
           family == {nodes[j].nodeVar : j \in
                        {j \in DOMAIN nodes : startsWith(nodes[j].nodeVar, v)}}
           m == Cardinality(family)
       IN (family = {Nth(v, i) : i \in 0..(m - 1)}) =>
            calls'[Len(calls')].nodeVar = Nth(v, m)]_vars

\* C2 witness: the literal x was registered three times on a builder holding
\* nothing else that starts with x, giving x, x_1, x_2.
C2_Witness ==
  /\ Len(calls) = 3
  /\ \A i \in 1..3 : calls[i].op \in Registering /\ calls[i].variable = X
  /\ nodeKeys(B) = <<X, X \o <<"_", "1">>, X2>>

\* C3: two calls that chose distinct aliases never generate a common
\* parameter key.
C3_NoCrossAliasKeyCollision ==
  \A i, j \in DOMAIN calls :
    (calls[i].nodeVar # calls[j].nodeVar
       /\ calls[i].op \in Registering /\ calls[j].op \in Registering) =>
      \A p \in DOMAIN PropsOf(calls[i]), q \in DOMAIN PropsOf(calls[j]) :
        paramKey(calls[i].nodeVar, PropsOf(calls[i])[p][1])
          # paramKey(calls[j].nodeVar, PropsOf(calls[j])[q][1])

\* String.prototype.endsWith and String.prototype.includes
EndsWith(s, t) ==
  /\ Len(t) <= Len(s)
  /\ SubSeq(s, Len(s) - Len(t) + 1, Len(s)) = t

Contains(s, t) ==
  \E i \in 0..(Len(s) - Len(t)) : SubSeq(s, i + 1, i + Len(t)) = t

\* the elements of a non-empty sequence of strings, one space between
\* neighbours
RECURSIVE Spaced(_)
Spaced(seq) ==
  IF Len(seq) = 1 THEN seq[1] ELSE seq[1] \o <<" ">> \o Spaced(Tail(seq))

\* the registered aliases in registration order, each but the last followed
\* by sep
RECURSIVE AliasList(_, _)
AliasList(entries, sep) ==
  IF entries = <<>> THEN <<>>
  ELSE IF Len(entries) = 1 THEN entries[1].nodeVar
  ELSE entries[1].nodeVar \o sep \o AliasList(Tail(entries), sep)

\* C4 (as claimed): with no custom return, the result of build() ends with
\* 'RETURN ' and the registered aliases joined by ',' with no space.
C4_DefaultReturnNoSpace ==
  (LastCall.op = "build" /\ return = <<>>) =>
    EndsWith(built.query, <<" ">> \o RETURN \o AliasList(nodes, <<",">>))
    \/ built.query = RETURN \o AliasList(nodes, <<",">>)

\* C4 (amended): with no custom return, the result of build() ends with
\* 'RETURN ' and the registered aliases in registration order joined by
\* ', ' (a comma and one space), e.g. 'RETURN car, prop'.
C4_DefaultReturnCommaSpace ==
  (LastCall.op = "build" /\ return = <<>>) =>
    EndsWith(built.query, <<" ">> \o RETURN \o AliasList(nodes, <<",", " ">>))
    \/ built.query = RETURN \o AliasList(nodes, <<",", " ">>)

\* C4 witness: build() with the default return over at least two aliases.
C4_Witness ==
  /\ LastCall.op = "build"
  /\ return = <<>>
  /\ Len(nodes) >= 2
  /\ query # <<>>

\* the return clause build() must use in the current state
ReturnClause ==
  IF return # <<>> THEN return ELSE RETURN \o AliasList(nodes, <<",", " ">>)

\* C5: build() returns the committed clauses in commit order followed by the
\* return clause, single-space separated, and the accumulated parameters;
\* on a builder nothing else was called on, 'RETURN ' and no parameters.
C5_BuildComposition ==
  (LastCall.op = "build") =>
    /\ built.query = Spaced(Append(query, ReturnClause))
    /\ built.params = params
    /\ (\A i \in DOMAIN calls : calls[i].op = "build") =>
          built = [query |-> RETURN, params |-> EmptyMap]

\* C5 witness: build() after two committed clauses with parameters.
C5_Witness ==
  /\ LastCall.op = "build"
  /\ Len(query) = 2
  /\ params # EmptyMap

\* C6: build() changes no builder state, and a build() that directly
\* follows a build() returns an equal result.
C6_BuildIdempotentRead ==
  [][(calls' # calls /\ calls'[Len(calls')].op = "build") =>
       /\ UNCHANGED <<lastNodeVar, lastNodeVarIndex, nodes, params, query,
                      return>>
       /\ (LastCall.op = "build" => built' = built)]_vars

\* C6 witness: two build() calls in a row on a builder holding a clause.
C6_Witness ==
  /\ Len(calls) >= 3
  /\ calls[Len(calls)].op = "build"
  /\ calls[Len(calls) - 1].op = "build"
  /\ query # <<>>
  /\ params # EmptyMap

\* the text of a statement from its last 'RETURN ' on
ReturnPart(q) ==
  LET starts == {i \in 1..(Len(q) - Len(RETURN) + 1) :
                   SubSeq(q, i, i + Len(RETURN) - 1) = RETURN}
      from == CHOOSE i \in starts : \A j \in starts : j <= i
  IN SubSeq(q, from, Len(q))

\* C7: right after a build() every mutating operation is still enabled, and
\* the result of any build(), the later ones included, holds every committed
\* clause, every parameter and the current projection (each registered
\* alias, or the custom list).
C7_BuildNeverCloses ==
  /\ (LastCall.op = "build" /\ opCount < MaxOps) =>
        (ENABLED Select) /\ (ENABLED CreateNode) /\ (ENABLED Join)
          /\ (ENABLED CustomReturn)
  /\ (LastCall.op = "build") =>
        /\ \A i \in DOMAIN query : Contains(built.query, query[i])
        /\ \A k \in DOMAIN params :
              k \in DOMAIN built.params /\ built.params[k] = params[k]
        /\ IF return # <<>> THEN ReturnPart(built.query) = return
           ELSE \A i \in DOMAIN nodes :
                  Contains(ReturnPart(built.query), nodes[i].nodeVar)

\* C7 witness: build(), then a select/createNode/join with properties, then
\* build() again.
C7_Witness ==
  /\ Len(calls) = 3
  /\ calls[1].op = "build"
  /\ calls[2].op \in {"select", "createNode", "join"}
  /\ calls[3].op = "build"
  /\ params # EmptyMap

\* calls that hand a property mapping to the serializer under the alias
\* they chose
Serializing == {"select", "createNode", "join"}

\* 'name: $alias_sanitized' for each entry of a mapping, in iteration order,
\* separated by ', '
RECURSIVE EntryList(_, _)
EntryList(alias, record) ==
  LET entry == record[1][1] \o <<":", " ", "$">> \o alias \o <<"_">>
                 \o sanitizedKey(record[1][1])
  IN IF Len(record) = 1 THEN entry
     ELSE entry \o <<",", " ">> \o EntryList(alias, Tail(record))

\* C8: a call with a non-empty property mapping writes one 'name: $key'
\* entry per mapping key, in iteration order, into its clause and leaves
\* exactly that many parameter entries keyed <alias>_<sanitizedKey>.
C8_OneParameterPerKey ==
  (LastCall.op \in Serializing /\ PropsOf(LastCall) # <<>>) =>
    LET rec == PropsOf(LastCall)
        keys == {k \in DOMAIN params :
                   \E j \in DOMAIN rec : k = paramKey(LastCall.nodeVar, rec[j][1])}
    IN /\ Contains(query[Len(query)],
                   <<" ", "{">> \o EntryList(LastCall.nodeVar, rec) \o <<"}">>)
       /\ Cardinality(keys) = Len(rec)

\* C9: a select/createNode/join whose property mapping is empty or omitted
\* writes the bare reference alias[:Label] and leaves the parameter map as
\* it was.
C9_EmptyMappingNoParams ==
  [][(calls' # calls /\ calls'[Len(calls')].op \in Serializing
        /\ PropsOf(calls'[Len(calls')]) = <<>>) =>
       LET c == calls'[Len(calls')]
           clause == query'[Len(query')]
       IN /\ params' = params
          /\ c.op = "select" =>
                clause = MATCH \o <<"(">> \o c.nodeVar \o <<":">> \o Car \o <<")">>
          /\ c.op = "createNode" =>
                clause = MERGE \o <<"(">> \o c.nodeVar \o <<":">> \o Car \o <<")">>
          /\ c.op = "join" => ~Contains(clause, <<"{">>)]_vars

\* C9 witness: createNode with {} and select with no filter on a builder
\* that already holds parameters.
C9_Witness ==
  /\ Len(calls) = 3
  /\ calls[2].op = "createNode" /\ calls[2].properties = <<>>
  /\ calls[3].op = "select" /\ calls[3].properties = UndefinedRecord
  /\ params # EmptyMap

\* the n-th name of the sequence a, b, ..., z, aa, ab, ..., az
AutoName(n) ==
  IF n <= 26 THEN <<nodeVarIndex[n]>> ELSE <<"a", nodeVarIndex[n - 26]>>

\* C10: on a builder that is never given an alias, the n-th generated
\* alias is the n-th of a..z, aa..az for n = 1..52; the prefix is empty
\* before the 26th value and 'a' from the 26th to the 51st.
C10_AutoSequence ==
  (opCount \in 1..52) =>
    /\ lastGen = <<AutoName(opCount)>>
    /\ lastNodeVarIndex = opCount % 26
    /\ lastNodeVar = (IF opCount < 26 THEN <<>>
                      ELSE IF opCount < 52 THEN <<"a">> ELSE <<"a", "a">>)

\* C10 witness: the 52nd generated alias is az.
C10_Witness ==
  /\ opCount = 52
  /\ lastGen = << <<"a", "z">> >>

\* C11: on a builder that is never given an alias, each of the first 702
\* generated aliases differs from every alias generated before it.
C11_AutoAliasesDistinct ==
  [][(opCount < 702) =>
       \A g \in DOMAIN lastGen' : \A i \in DOMAIN calls :
         calls[i].nodeVar # lastGen'[g]]_vars

\* C11 witness: the 702nd generation, a z behind a prefix of 26 letters.
C11_Witness ==
  /\ opCount = 702
  /\ Len(lastGen) = 1
  /\ Len(lastGen[1]) = 27
  /\ lastGen[1][27] = "z"

\* the arrow of a relationship reference: the text between the source's
\* closing parenthesis and the target's opening parenthesis
FirstClose(t) ==
  CHOOSE i \in DOMAIN t : t[i] = ")" /\ \A j \in 1..(i - 1) : t[j] # ")"
LastOpen(t) ==
  CHOOSE i \in DOMAIN t : t[i] = "(" /\ \A j \in (i + 1)..Len(t) : t[j] # "("
Arrow(t) == SubSeq(t, FirstClose(t) + 1, LastOpen(t) - 1)

\* the bracket segment of an arrow, from its "[" to its "]" (empty if none)
BracketOf(a) ==
  IF \E i \in DOMAIN a : a[i] = "["
  THEN SubSeq(a, CHOOSE i \in DOMAIN a : a[i] = "[",
                 CHOOSE i \in DOMAIN a : a[i] = "]")
  ELSE <<>>

\* the arrow the specification gives for a direction and a bracket segment
ArrowTable(d, P) ==
  CASE d = "from" -> <<"-">> \o P \o <<"-", ">">>
    [] d = "to" -> <<"<", "-">> \o P \o <<"-">>
    [] d = "both" -> <<"-">> \o P \o <<"-">>
    [] d = "none" -> <<"-">> \o P \o <<"-">>
    [] d = "undefined" -> <<"-">> \o P \o <<"-">>

\* C12: the arrow of every relationship reference is -P-> for 'from', <-P-
\* for 'to', -P- for 'both' and for 'none', and -P- as for 'none' when the
\* direction is omitted, P being the bracket segment (possibly empty).
C12_DirectionMapping ==
  refCall.text # Undefined =>
    Arrow(refCall.text)
      = ArrowTable(refCall.direction, BracketOf(Arrow(refCall.text)))

\* C12 witness: a reference built with the direction omitted and a bracket.
C12_Witness ==
  /\ refCall.text # Undefined
  /\ refCall.direction = "undefined"
  /\ BracketOf(Arrow(refCall.text)) # <<>>
  /\ Arrow(refCall.text) = <<"-">> \o BracketOf(Arrow(refCall.text)) \o <<"-">>

\* an attribute that is given: neither undefined nor the empty string
Given(v) == v # Undefined /\ v # <<>>

\* C13: a buildRelationshipReference call emits a bracket segment exactly
\* when its attributes carry an alias or a label; otherwise the arrow is one
\* of --, -->, <-- and the alias table is the same after the call as before.
C13_BracketIffAliasOrLabel ==
  [][(opCount' = opCount + 1 /\ LastCall'.op = "buildRelationshipReference") =>
       /\ (BracketOf(Arrow(refCall'.text)) # <<>>)
            <=> (Given(refCall'.attributes.variable)
                   \/ Given(refCall'.attributes.label))
       /\ ~(Given(refCall'.attributes.variable)
              \/ Given(refCall'.attributes.label)) =>
            /\ Arrow(refCall'.text)
                 \in {<<"-", "-">>, <<"-", "-", ">">>, <<"<", "-", "-">>}
            /\ nodes' = nodes]_vars

\* C13 witness: a bare arrow built on a builder that holds an alias, from
\* attributes that carry properties but neither alias nor label.
C13_Witness ==
  /\ LastCall.op = "buildRelationshipReference"
  /\ refCall.attributes.variable = Undefined
  /\ refCall.attributes.label = Undefined
  /\ refCall.attributes.properties = Props1
  /\ Arrow(refCall.text) = <<"-", "-", ">">>
  /\ nodes # <<>>

\* a step that is a join whose clause carries a relationship bracket
BracketJoin ==
  /\ opCount' = opCount + 1
  /\ LastCall'.op = "join"
  /\ Len(query') = Len(query) + 1
  /\ Contains(query'[Len(query')], <<"[">>)

\* C14: when a join emits a bracket, the alias written in it is a new entry
\* of the alias table placed after all the entries that were there before
\* (so the default RETURN lists it after the earlier aliases), and a later
\* request for that alias is suffixed.
C14_BracketAliasRegisteredLast ==
  [][BracketJoin =>
       /\ Contains(query'[Len(query')], <<"[">> \o LastCall'.nodeVar)
       /\ Len(nodes') = Len(nodes) + 1
       /\ SubSeq(nodes', 1, Len(nodes)) = nodes
       /\ nodes'[Len(nodes')].nodeVar = LastCall'.nodeVar
       /\ generateNodeVar(B', LastCall'.nodeVar).nodeVar
            # LastCall'.nodeVar]_vars

\* the node reference of an alias, a label and a property mapping:
\* alias:label, then ' {name: $key, ...}' when the mapping is not empty
NodeRef(alias, label, record) ==
  alias \o <<":">> \o label
    \o (IF record = <<>> THEN <<>>
        ELSE <<" ", "{">> \o EntryList(alias, record) \o <<"}">>)

\* C15: a select (createNode) call leaves the alias it chose registered with
\* the label, and the clause sequence it leaves is the one before with the
\* single clause 'MATCH (<node-ref>)' ('MERGE (<node-ref>)') added at the end.
C15_SelectCreateAppendOne ==
  [][(opCount' = opCount + 1 /\ LastCall'.op \in Registering) =>
       /\ \E i \in DOMAIN nodes' :
            nodes'[i] = [nodeVar |-> LastCall'.nodeVar, label |-> Car]
       /\ query' =
            Append(query,
                   (IF LastCall'.op = "select" THEN MATCH ELSE MERGE)
                     \o <<"(">>
                     \o NodeRef(LastCall'.nodeVar, Car, PropsOf(LastCall'))
                     \o <<")">>)]_vars

\* C15 witness: a createNode after a select, two clauses in commit order.
C15_Witness ==
  /\ Len(calls) = 2
  /\ calls[1].op = "select"
  /\ calls[2].op = "createNode"
  /\ query = << MATCH \o <<"(", "x", ":">> \o Car \o <<")">>,
                MERGE \o <<"(", "x", "_", "1", ":">> \o Car
                      \o <<" ", "{", "k", ":", " ", "$", "x", "_", "1", "_", "k",
                           "}", ")">> >>

\* a step that is a join (every join of Spec names the source x and the
\* target xy)
JoinStep == opCount' = opCount + 1 /\ LastCall'.op = "join"

\* C16: a join leaves the clause sequence it found with one clause added at
\* the end, 'MATCH (x)<arrow>(xy)' with both aliases exactly as passed,
\* whether or not they are registered; the only entry it may add to the
\* alias table is the one of the alias written in the relationship bracket.
C16_JoinVerbatim ==
  [][JoinStep =>
       LET clause == query'[Len(query')] IN
       /\ Len(query') = Len(query) + 1
       /\ SubSeq(query', 1, Len(query)) = query
       /\ startsWith(clause, MATCH \o <<"(">> \o X \o <<")">>)
       /\ EndsWith(clause, <<"(">> \o XY \o <<")">>)
       /\ FirstClose(clause) = Len(MATCH) + Len(X) + 2
       /\ LastOpen(clause) = Len(clause) - Len(XY) - 1
       /\ \A i \in DOMAIN nodes' :
            (\A j \in DOMAIN nodes : nodes[j].nodeVar # nodes'[i].nodeVar) =>
              /\ nodes'[i].nodeVar = LastCall'.nodeVar
              /\ Contains(clause, <<"[">> \o LastCall'.nodeVar)
       /\ Len(nodes') <= Len(nodes) + 1]_vars

\* C16 witness: a bare join of x, registered, with xy, unregistered: the
\* clause names both and the table still holds x alone.
C16_Witness ==
  /\ Len(calls) = 2
  /\ calls[1].op = "select"
  /\ calls[2].op = "join"
  /\ query[2] = MATCH \o <<"(", "x", ")", "-", "-", "(", "x", "y", ")">>
  /\ Len(nodes) = 1
  /\ nodes[1].nodeVar = X

\* the aliases of a list, each but the last followed by ','
RECURSIVE Listed(_)
Listed(aliases) ==
  IF aliases = <<>> THEN <<>>
  ELSE IF Len(aliases) = 1 THEN aliases[1]
  ELSE aliases[1] \o <<",">> \o Listed(Tail(aliases))

\* the positions of the customReturn calls made so far
CustomReturns == {i \in DOMAIN calls : calls[i].op = "customReturn"}

\* C17: once customReturn has been called, the result of build() ends with
\* 'RETURN ' and the aliases of the last customReturn call joined by ',',
\* and that is its whole return clause, whatever was passed to earlier
\* customReturn calls and whatever aliases are registered.
C17_CustomReturnLastWins ==
  (LastCall.op = "build" /\ CustomReturns # {}) =>
    LET last == CHOOSE i \in CustomReturns : \A j \in CustomReturns : j <= i
    IN /\ EndsWith(built.query, RETURN \o Listed(calls[last].aliases))
       /\ ReturnPart(built.query) = RETURN \o Listed(calls[last].aliases)

\* C17 witness: customReturn(x, xy), then customReturn(x), then build().
C17_Witness ==
  /\ Len(calls) = 3
  /\ calls[1].op = "customReturn"
  /\ calls[1].aliases = <<X, XY>>
  /\ calls[2].op = "customReturn"
  /\ calls[2].aliases = <<X>>
  /\ calls[3].op = "build"
  /\ built.query = RETURN \o X

\* C18: across every operation the clause sequence before is a prefix of the
\* clause sequence after, every alias registered before is registered after,
\* and every parameter key present before is present after.
C18_Monotonic ==
  [][/\ Len(query) <= Len(query')
     /\ SubSeq(query', 1, Len(query)) = query
     /\ \A i \in DOMAIN nodes :
          \E j \in DOMAIN nodes' : nodes'[j].nodeVar = nodes[i].nodeVar
     /\ DOMAIN params \subseteq DOMAIN params']_vars

\* C18 witness: three calls that each committed a clause, registered an
\* alias and merged parameters.
C18_Witness ==
  /\ Len(query) = 3
  /\ Len(nodes) = 3
  /\ Cardinality(DOMAIN params) = 3
  /\ LastCall.op = "createNode"

\* the drivers created and not closed
OpenDrivers == {d \in DOMAIN drivers : drivers[d] = "open"}

\* C19: at any time at most one driver is open, and an open driver is the
\* one the static instance refers to.
C19_SingleConnection ==
  /\ Cardinality(OpenDrivers) <= 1
  /\ \A d \in OpenDrivers : instance = d

\* a step that is a connect or a getInstance call
ConnectStep ==
  /\ connCall'.n = connCall.n + 1
  /\ connCall'.op \in {"connect", "getInstance"}

C21_DisconnectClosesAndClears ==
  [][\A p \in Procs :
       (pc[p] = "awaitClose" /\ pc'[p] = "idle") =>
         /\ drivers'[held[p]] = "closed"
         /\ instance' = 0
         /\ connect(N').result = Len(drivers) + 1
         /\ connect(N').drivers[Len(drivers) + 1] = "open"]_vars

\* C21 witness: connect, a completed disconnect, connect again: the first
\* driver is closed and the instance is a second, open one.
C21_Witness ==
  /\ connCall.n = 3
  /\ connCall.op = "connect"
  /\ connCall.result = 2
  /\ instance = 2
  /\ drivers = <<"closed", "open">>
  /\ \A p \in Procs : pc[p] = "idle"

\* C22: a delete or join call that has returned did not reject: if its
\* execute call rejected it logged the error and returned false, and if
\* execute resolved it returned true exactly when the result holds at least
\* one record (and logged nothing).
C22_DeleteJoinNeverReject ==
  (db.at = "idle" /\ db.method \in {"delete", "join"}) =>
    /\ db.returned \in {"true", "false"}
    /\ db.run.status = "rejected" => (db.returned = "false" /\ db.logged)
    /\ db.run.status = "resolved" =>
         /\ (db.returned = "true") <=> (db.run.records > 0)
         /\ ~db.logged

\* C22 witness: a join on a session of its own whose run rejected; the
\* session was closed, the error logged and false returned.
C22_Witness ==
  /\ db.at = "idle"
  /\ db.method = "join"
  /\ db.options = "none"
  /\ db.run.status = "rejected"
  /\ sessions[db.session].closes = 1
  /\ db.returned = "false"
  /\ db.logged

\* the filter of the select call in progress, as a property mapping
Where == IF db.where = UndefinedRecord THEN <<>> ELSE db.where

\* C23: what Neo4j.select hands to execute is 'MATCH (n:<table> {k: $n_k,
\* ...}) RETURN n' with one parameter n_<key> per filter key holding the
\* filter's value, which is the pair a fresh builder gives for
\* select(table, 'n', where).build().
C23_SelectSubmitsBuilderStatement ==
  db.method = "select" =>
    /\ db.query = MATCH \o <<"(">> \o NodeRef(Nn, db.label, Where) \o <<")">>
                    \o <<" ">> \o RETURN \o Nn
    /\ DOMAIN db.params =
         {Nn \o <<"_">> \o sanitizedKey(Where[i][1]) : i \in DOMAIN Where}
    /\ \A i \in DOMAIN Where :
         (\A j \in DOMAIN Where :
            sanitizedKey(Where[j][1]) = sanitizedKey(Where[i][1]) => j = i) =>
           db.params[Nn \o <<"_">> \o sanitizedKey(Where[i][1])] = Where[i][2]
    /\ [query |-> db.query, params |-> db.params]
         = build(select(Fresh, db.label, Nn, db.where).b)

\* C23 witness: select('Car', {where: {k: 1}}) with the caller's session:
\* 'MATCH (n:Car {k: $n_k}) RETURN n' and {n_k: 1} reached execute.
C23_Witness ==
  /\ db.method = "select"
  /\ db.options = "session"
  /\ db.at = "awaitRun"
  /\ db.where = Props1
  /\ db.query = MATCH \o <<"(", "n", ":">> \o Car
                  \o <<" ", "{", "k", ":", " ", "$", "n", "_", "k", "}", ")",
                       " ">> \o RETURN \o <<"n">>
  /\ db.params[<<"n", "_", "k">>] = 1

\* a step that is a direct buildRelationshipReference call
RefStep ==
  opCount' = opCount + 1 /\ LastCall'.op = "buildRelationshipReference"

\* the identifier the generator gives at position k past the current one:
\* the letter, suffixed when that letter is a registered alias
Generated(name, k) ==
  /\ startsWith(name, <<nodeVarIndex[lastNodeVarIndex + k + 1]>>)
  /\ ~has(B, <<nodeVarIndex[lastNodeVarIndex + k + 1]>>) =>
       name = <<nodeVarIndex[lastNodeVarIndex + k + 1]>>

\* C24: within one buildRelationshipReference call the generator serves a
\* missing source alias first, a missing target alias next and a missing
\* relationship alias last; on a fresh builder two empty ends give
\* (a)-[r:...]->(b), and a label without alias between explicit ends gives
\* (x)-[a:REL]->(xy).
C24_GenerationOrder ==
  [][RefStep =>
       LET s == refCall'.source.variable = Undefined
           t == refCall'.target.variable = Undefined
           r == ~Given(refCall'.attributes.variable)
           ks == IF s THEN 1 ELSE 0
           kt == IF t THEN 1 ELSE 0
           text == refCall'.text
       IN /\ Len(lastGen') = ks + kt + 1
          /\ s => /\ Generated(lastGen'[1], 0)
                  /\ startsWith(text, <<"(">> \o lastGen'[1])
          /\ t => /\ Generated(lastGen'[ks + 1], ks)
                  /\ EndsWith(text, <<"(">> \o lastGen'[ks + 1] \o <<")">>)
          /\ r => Generated(lastGen'[ks + kt + 1], ks + kt)
          /\ (r /\ Given(refCall'.attributes.label)) =>
               startsWith(BracketOf(Arrow(text)),
                          <<"[">> \o lastGen'[ks + kt + 1] \o <<":">>)
          /\ (opCount = 0 /\ s /\ t /\ refCall'.direction = "from"
                /\ refCall'.attributes.variable = Rv) =>
               text = <<"(", "a", ")", "-", "[", "r", ":">> \o REL
                        \o <<" ", "{", "k", ":", " ", "$", "r", "_", "k", "}",
                             "]", "-", ">", "(", "b", ")">>
          /\ (opCount = 0 /\ refCall'.source.variable = X /\ ~t
                /\ refCall'.direction = "from"
                /\ refCall'.attributes.variable = Undefined
                /\ refCall'.attributes.label = REL) =>
               text = <<"(", "x", ")", "-", "[", "a", ":">> \o REL
                        \o <<"]", "-", ">", "(", "x", "y", ")">>]_vars

\* C24 witness: two empty ends and a label without alias on a fresh builder:
\* source a, target b, relationship c.
C24_Witness ==
  /\ opCount = 1
  /\ LastCall.op = "buildRelationshipReference"
  /\ lastGen = << <<"a">>, <<"b">>, <<"c">> >>
  /\ refCall.text = <<"(", "a", ")", "-", "[", "c", ":">> \o REL
                      \o <<"]", "-", ">", "(", "b", ")">>

\* a step that serializes a property mapping under an alias, with the text
\* it produced: a direct buildNodeReference call or a select
NodeRefStep ==
  /\ opCount' = opCount + 1
  /\ LastCall'.op \in {"buildNodeReference", "select"}

C26_ExecuteSessionDiscipline ==
  [][/\ db'.options = "transaction" =>
          /\ sessions' = sessions
          /\ db'.session = 0
          /\ txRuns' = IF db'.n = db.n + 1 THEN txRuns + 1 ELSE txRuns
     /\ (db'.options # "transaction"
           /\ db'.at \in {"awaitRun", "awaitClose", "idle"} /\ db'.n > 0) =>
          /\ txRuns' = txRuns
          /\ db'.session \in DOMAIN sessions'
          /\ sessions'[db'.session].runs = 1
          /\ sessions'[db'.session].origin =
               (IF db'.options = "session" THEN "given" ELSE "acquired")
          /\ sessions'[db'.session].closes =
               (IF db'.at = "awaitRun" THEN 0 ELSE 1)
          /\ \A i \in DOMAIN sessions :
               i # db'.session => sessions'[i] = sessions[i]
          /\ Len(sessions') = Len(sessions)
               + (IF db'.at = "awaitRun" THEN 1 ELSE 0)]_vars

\* C26 witness: a second execute call, on a session it acquired, whose run
\* rejected: both sessions were run on once and closed once.
C26_Witness ==
  /\ db.n = 2
  /\ db.at = "idle"
  /\ db.method = "execute"
  /\ db.options = "none"
  /\ db.run.status = "rejected"
  /\ db.returned = "rejected"
  /\ Len(sessions) = 2
  /\ \A i \in DOMAIN sessions : sessions[i].runs = 1 /\ sessions[i].closes = 1
  /\ sessions[db.session].origin = "acquired"

\* the characters of a parameter name
NameChars == AlphaNum \cup {"_"}

\* the placeholder that starts at a '$' at position i of a statement: the
\* longest run of name characters behind it
PlaceholderAt(q, i) ==
  LET end == CHOOSE e \in i..Len(q) :
               /\ \A j \in (i + 1)..e : q[j] \in NameChars
               /\ e = Len(q) \/ q[e + 1] \notin NameChars
  IN SubSeq(q, i + 1, end)

\* C27: in every state, every '$' placeholder of the statement build() gives
\* is a key of the parameters build() gives.
C27_PlaceholdersBound ==
  LET r == build(B) IN
  \A i \in DOMAIN r.query :
    r.query[i] = "$" => PlaceholderAt(r.query, i) \in DOMAIN r.params

\* C27 witness: a built statement with two placeholders and their two
\* parameters.
C27_Witness ==
  /\ LastCall.op = "build"
  /\ Cardinality({i \in DOMAIN built.query : built.query[i] = "$"}) = 2
  /\ Cardinality(DOMAIN built.params) = 2
  /\ \A i \in DOMAIN built.query :
       built.query[i] = "$" =>
         PlaceholderAt(built.query, i) \in DOMAIN built.params

\* C28: the parameters a build() result holds are the object this.params
\* referred to at that build(); no operation changes the content of an
\* object that already exists, and an operation other than build() leaves
\* the last result, its statement and the object it refers to, as it was.
C28_BuildResultStable ==
  [][/\ \A i \in DOMAIN heap.objects :
          /\ i \in DOMAIN heap'.objects
          /\ heap'.objects[i] = heap.objects[i]
     /\ heap.built # 0 => heap'.objects[heap.built] = built.params
     /\ LastCall'.op # "build" =>
          /\ built' = built
          /\ heap'.built = heap.built
     /\ LastCall'.op = "build" =>
          /\ heap'.objects[heap'.built] = built'.params
          /\ built'.params = params]_vars

\* C28 witness: build(), then a direct buildNodeReference that adds a
\* parameter: the builder's parameters grew, the result's did not.
C28_Witness ==
  /\ Len(calls) = 3
  /\ calls[2].op = "build"
  /\ calls[3].op = "buildNodeReference"
  /\ heap.built # 0
  /\ heap.objects[heap.built] = built.params
  /\ Cardinality(DOMAIN params) = Cardinality(DOMAIN built.params) + 1
  /\ built.params # EmptyMap

\* a step that builds a relationship reference, directly or through join,
\* from attributes that carry no relationship alias
NoAliasRefStep ==
  /\ opCount' = opCount + 1
  /\ LastCall'.op \in {"buildRelationshipReference", "join"}
  /\ ~Given(LastCall'.variable)

\* C29: a relationship reference built without a relationship alias takes
\* one value from the generator for the relationship, after those taken for a
\* missing source and target, bracket or no bracket: the generator stands one
\* further, the next generated alias is the following letter, and after a
\* bare join of two given aliases on a fresh builder that alias is 'b'.
C29_RelationshipConsumesIdentifier ==
  [][NoAliasRefStep =>
       LET ends == Len(lastGen') - 1
           text == IF LastCall'.op = "join" THEN query'[Len(query')]
                   ELSE refCall'.text
       IN
       /\ lastNodeVarIndex' = lastNodeVarIndex + ends + 1
       /\ startsWith(lastGen'[ends + 1],
                     <<nodeVarIndex[lastNodeVarIndex + ends + 1]>>)
       /\ startsWith(generateNodeVar(B', Undefined).nodeVar,
                     <<nodeVarIndex[lastNodeVarIndex + ends + 2]>>)
       /\ ~Contains(text, <<"[">>) => nodes' = nodes
       /\ (opCount = 0 /\ LastCall'.op = "join") =>
            generateNodeVar(B', Undefined).nodeVar = <<"b">>]_vars

\* C29 witness: join('x', 'xy') with no attributes on a fresh builder, then a
\* select without alias: the select gets 'b' and is the only registered alias.
C29_Witness ==
  /\ Len(calls) = 2
  /\ calls[1].op = "join"
  /\ calls[2].op = "select"
  /\ calls[2].variable = Undefined
  /\ calls[2].nodeVar = <<"b">>
  /\ query[1] = MATCH \o <<"(", "x", ")", "-", "-", "(", "x", "y", ")">>
  /\ Len(nodes) = 1

\* C30: the aliases a buildRelationshipReference call generates for a
\* missing source or target are written in the pattern and are not keys of
\* the alias table after the call (so the default RETURN does not list
\* them), and a request for the same literal as an explicit alias gets it
\* unsuffixed.
C30_GeneratedEndsNotRegistered ==
  [][RefStep =>
       \A k \in 1..(Len(lastGen') - 1) :
         /\ Contains(refCall'.text, <<"(">> \o lastGen'[k])
         /\ \A i \in DOMAIN nodes' : nodes'[i].nodeVar # lastGen'[k]
         /\ ~Contains(build(B').query, <<" ">> \o lastGen'[k])
         /\ generateNodeVar(B', lastGen'[k]).nodeVar = lastGen'[k]]_vars

\* C30 witness: a reference with two empty ends generated a and b; the
\* select('Car', 'a') that followed got 'a' itself.
C30_Witness ==
  /\ Len(calls) = 2
  /\ calls[1].op = "buildRelationshipReference"
  /\ refCall.source = NoAttributes
  /\ refCall.target = NoAttributes
  /\ startsWith(refCall.text, <<"(", "a", ")">>)
  /\ calls[2].op = "select"
  /\ calls[2].variable = <<"a">>
  /\ calls[2].nodeVar = <<"a">>

====
